---- MODULE Spec2Model ----
(***************************************************************************)
(* The director: DockerManager (src/director/docker_manager.py) and        *)
(* StateManager (src/director/state/manager.py) as a state machine.        *)
(*                                                                         *)
(* The runtime is a single asyncio loop: code between two awaits runs      *)
(* atomically, so every action below is one resumption of a coroutine,     *)
(* from the await that suspended it to the next await it reaches.  An      *)
(* engine, config-store or RPC call takes effect in the step that resumes  *)
(* its caller.  A flow (a member of Flows) is one thread of control that   *)
(* executes lifecycle operations one after the other: an awaited call      *)
(* sequence is one flow, a call detached with no_wait=True (or made by a   *)
(* concurrent request) is another flow.                                    *)
(***************************************************************************)
EXTENDS Integers, FiniteSets, Sequences, TLC

\* ------------------------------------------------------------------ bounds
\* The port pool is [start_port, end_port); the model runs a pool of PoolSize.
PoolSize == 3
StartPort == 8900
EndPort == StartPort + PoolSize
Ports == StartPort .. (EndPort - 1)

\* The services of the image catalog and the frontier service.
FRONTIER_SERVICE == "front"
Names == {"A", "B"}
AllNames == Names \cup {FRONTIER_SERVICE}
Flows == {1, 2}

\* The dashboard grid is cols x rows (6 x 6 in StateManager.__init__); the
\* model runs a grid of Cols x Rows and the records of GridNames.
Cols == 2
Rows == 2
GridNames == AllNames \cup {"C", "D"}

\* The log records of the model: at most MaxChunks records reach a follower,
\* each of one or two frames with a payload of at most MaxPayload bytes.
MaxChunks == 2
MaxPayload == 1
\* The events queued for the reader and the followers of one container.
MaxEvents == 2
MaxFollowers == 2

\* image_navigator[name].ports: how many container ports a service declares.
DeclaredPorts(n) == IF n = "A" THEN 2 ELSE 1

VARIABLES
    containers,          \* the engine: name -> [state, ports]
    reserved_ports,      \* DockerManager.reserved_ports
    started,             \* the config store's STARTED_SET
    state,               \* StateManager._state: name -> service record
    registrations_hash,  \* StateManager.registrations_hash
    front_hash,          \* the state_hash of the last probe the frontier received
    task,                \* flow -> the lifecycle operation it executes
    cw,                  \* StateManager.clean_worker: the reconciler
    saved,               \* the services whose config a run has persisted
    auto,                \* StateManager.handle_auto_start: the boot's autostart
    pos,                 \* ServiceState.pos: name -> cell of the dashboard grid
    getres,              \* how the last get(name, params) ended
    input,               \* the log records a follower has still to read
    published,           \* the records published on the logs channel
    er,                  \* DockerManager.events_reader
    events,              \* the events queued in the reader's subscription
    followers            \* name -> the live logs_reader coroutines of its container

\* The dashboard and the event and log pump, which no lifecycle step touches.
aux == <<pos, getres, input, published, er, events, followers>>

vars == <<containers, reserved_ports, started, state, registrations_hash,
          front_hash, task, cw, saved, auto, aux>>

\* ------------------------------------------------------- service records
\* ServiceState (state/service.py): the fields the manager reads and writes.
NoRecord == [present |-> FALSE, override |-> "none", dock |-> "none",
             dports |-> {}, app |-> FALSE]
NewRecord == [NoRecord EXCEPT !.present = TRUE]

\* StateManager.get: the record of name, created on first use.
Get(st, n) == IF st[n].present THEN st ELSE [st EXCEPT ![n] = NewRecord]

\* ServiceState.set_status_override
SetStatusOverride(st, n, o) == [st EXCEPT ![n].override = o]

\* ServiceState.clean_status: the override, dockstate and appstate are cleared.
CleanStatus(st, n) ==
    [st EXCEPT ![n].override = "none", ![n].dock = "none",
               ![n].dports = {}, ![n].app = FALSE]

\* ServiceState.set_dockstate(container.full_state()): the override is kept.
SetDockstate(st, n, c) == [st EXCEPT ![n].dock = c.state, ![n].dports = c.ports]

\* effective_status: the override if present, else the observed engine status.
EffectiveStatus(r) == IF r.override # "none" THEN r.override ELSE r.dock

\* ------------------------------------------------------------ the engine
Absent == [state |-> "absent", ports |-> {}]

\* BandContainer.ports over DockerManager.containers(): ports bound by
\* running containers.
UsedPorts(cs) == UNION {cs[n].ports : n \in {m \in AllNames : cs[m].state = "running"}}

\* DockerManager.available_ports, given the listed containers.
AvailablePortsNoReserved(cs, res) == Ports \ UsedPorts(cs)
AvailablePorts(cs, res) == (Ports \ UsedPorts(cs)) \ res

\* DockerManager.hold_ports
HoldPorts(res, ports) == res \cup ports

\* DockerManager.free_ports: adds the ports, as hold_ports does.
FreePorts(res, ports) == res \cup ports

\* reserved_ports when available_ports.pop() raises on the empty set: the
\* generator of line 276 raises before hold_ports is reached.
HoldPartial(res, avail) == res \cup avail
HoldOnExhaustion(res, avail) == res

\* ------------------------------------------------------------------ flows
\* The program points inside the _do_* coroutines, which no_wait=True detaches.
DetachedPcs == {"rc_build", "rm_get", "rm_act", "rc_ports", "rc_run", "run_add",
                "run_resolve", "rs_get", "dc_list", "dc_act", "probe", "probe_lost"}

\* seq: the operation follows, in the same flow, a completed start_service of
\* the same name.  latest: every other operation was called before this one,
\* and was complete or detached when this one was called.
Idle == [op |-> "none", name |-> "none", pc |-> "idle", ports |-> {},
         cstate |-> "none", err |-> "none", seq |-> FALSE, latest |-> FALSE]

\* The flows once flow t calls operation op on n and reaches program point pc.
Call(t, op, n, pc) ==
    [u \in Flows |->
        IF u = t
        THEN [Idle EXCEPT !.op = op, !.name = n, !.pc = pc,
                          !.latest = (\A v \in Flows \ {t} :
                                        task[v].pc \in DetachedPcs
                                                        \cup {"idle", "done", "raised"}),
                          !.seq = (op = "stop" /\ task[t].op = "start"
                                   /\ task[t].pc = "done" /\ task[t].name = n)]
        ELSE [task[u] EXCEPT !.latest = FALSE]]

Free(t) == task[t].pc \in {"idle", "done", "raised"}

\* The operation of flow t ends: it returns, or raises an exception of a kind.
Done(t) == [task EXCEPT ![t].pc = "done", ![t].ports = {}, ![t].cstate = "none"]
Raise(t, kind) ==
    [task EXCEPT ![t].pc = "raised", ![t].err = kind, ![t].ports = {},
                 ![t].cstate = "none"]

\* StateManager.run_service up to the first await of dock.run_container.
RunService(t, n) ==
    /\ Free(t)
    /\ state' = SetStatusOverride(CleanStatus(Get(state, n), n), n, "STARTING")
    /\ task' = Call(t, "run", n, "rc_build")
    /\ UNCHANGED <<aux, saved, containers, reserved_ports, started,
                   registrations_hash, front_hash, cw>>

\* A build that already adds the name to STARTED_SET.
CreateImageAdds(t) ==
    /\ task[t].pc = "rc_build"
    /\ task' = [task EXCEPT ![t].pc = "rm_get"]
    /\ started' = started \cup {task[t].name}
    /\ UNCHANGED <<aux, saved, auto, containers, reserved_ports, state,
                   registrations_hash, front_hash, cw>>

\* DockerManager.create_image returns: the image is built.
CreateImage(t) ==
    /\ task[t].pc = "rc_build"
    /\ task' = [task EXCEPT ![t].pc = "rm_get"]
    /\ UNCHANGED <<aux, saved, auto, containers, reserved_ports, started, state,
                   registrations_hash, front_hash, cw>>

\* DockerManager.create_image raises: the engine fails the build.
CreateImageFails(t) ==
    /\ task[t].pc = "rc_build"
    /\ task' = Raise(t, "DockerError")
    /\ UNCHANGED <<aux, saved, auto, containers, reserved_ports, started, state,
                   registrations_hash, front_hash, cw>>

\* _do_remove_service without its clean_status.
AfterRemoveKeeps(t) ==
    /\ state' = state
    /\ task' = IF task[t].op = "remove" THEN Done(t)
               ELSE [task EXCEPT ![t].pc = "rc_ports"]

\* What follows dock.remove_container in the caller: _do_remove_service
\* cleans the status and ends, run_container sleeps and lists the containers.
AfterRemove(t) ==
    IF task[t].op = "remove"
    THEN /\ state' = CleanStatus(Get(state, task[t].name), task[t].name)
         /\ task' = Done(t)
    ELSE /\ state' = state
         /\ task' = [task EXCEPT ![t].pc = "rc_ports"]

\* DockerManager.remove_container: self.get(name) and container.fill().
\* No container (or get's DockerError, which get absorbs): return True.
RemoveGet(t) ==
    /\ task[t].pc = "rm_get"
    /\ \E found \in BOOLEAN :
        IF found /\ containers[task[t].name].state # "absent"
        THEN /\ task' = [task EXCEPT ![t].pc = "rm_act",
                                     ![t].cstate = containers[task[t].name].state]
             /\ state' = state
        ELSE AfterRemove(t)
    /\ UNCHANGED <<aux, saved, auto, containers, reserved_ports, started,
                   registrations_hash, front_hash, cw>>

\* DockerManager.remove_container: stop and delete, then wait for "removed".
\* A container seen running is stopped and deleted; one seen stopped is
\* deleted, which the engine refuses if it is running by now.  A DockerError
\* (of the stop, or of the delete after it) is logged and the call returns
\* True all the same.
RemoveAct(t) ==
    /\ task[t].pc = "rm_act"
    /\ LET n == task[t].name
           now == containers[n].state
       IN \E outcome \in {"removed", "stopped", "failed"} :
            containers' =
              IF now = "absent" \/ outcome = "failed" THEN containers
              ELSE IF task[t].cstate = "running"
                   THEN IF outcome = "removed"
                        THEN [containers EXCEPT ![n] = Absent]
                        ELSE [containers EXCEPT ![n].state = "stopped"]
                   ELSE IF now = "stopped" /\ outcome = "removed"
                        THEN [containers EXCEPT ![n] = Absent]
                        ELSE containers
    /\ AfterRemove(t)
    /\ UNCHANGED <<aux, saved, auto, reserved_ports, started, registrations_hash,
                   front_hash, cw>>

\* DockerManager.run_container, lines 275-278: the containers are listed,
\* the ports are popped from the available set and held.  pop() on the
\* empty set raises KeyError before hold_ports.
AllocatePorts(t) ==
    /\ task[t].pc = "rc_ports"
    /\ LET avail == AvailablePorts(containers, reserved_ports)
           k == DeclaredPorts(task[t].name)
       IN IF Cardinality(avail) < k
          THEN /\ reserved_ports' = HoldOnExhaustion(reserved_ports, avail)
               /\ task' = Raise(t, "KeyError")
          ELSE \E ps \in SUBSET avail :
                 /\ Cardinality(ps) = k
                 /\ reserved_ports' = HoldPorts(reserved_ports, ps)
                 /\ task' = [task EXCEPT ![t].pc = "rc_run", ![t].ports = ps]
    /\ UNCHANGED <<aux, saved, auto, containers, started, state, registrations_hash,
                   front_hash, cw>>

\* DockerManager.available_ports raises: the engine fails the listing.
ListFails(t) ==
    /\ task[t].pc = "rc_ports"
    /\ task' = Raise(t, "DockerError")
    /\ UNCHANGED <<aux, saved, auto, containers, reserved_ports, started, state,
                   registrations_hash, front_hash, cw>>

\* DockerManager.run_container, lines 279-296: the engine runs the
\* container (it refuses a name in use); finally free_ports.
RunContainer(t) ==
    /\ task[t].pc = "rc_run"
    /\ \E ok \in BOOLEAN :
        IF ok /\ containers[task[t].name].state = "absent"
        THEN /\ containers' = [containers EXCEPT ![task[t].name] =
                                  [state |-> "running", ports |-> task[t].ports]]
             /\ task' = [task EXCEPT ![t].pc = "run_add"]
        ELSE /\ containers' = containers
             /\ task' = Raise(t, "DockerError")
    /\ reserved_ports' = FreePorts(reserved_ports, task[t].ports)
    /\ UNCHANGED <<aux, saved, auto, started, state, registrations_hash, front_hash,
                   cw>>

\* _do_run_service: band_config.set_add(STARTED_SET, name), svc.save_config().
RunSetAdd(t) ==
    /\ task[t].pc = "run_add"
    /\ \E ok \in BOOLEAN :
        IF ok
        THEN /\ started' = started \cup {task[t].name}
             /\ saved' = saved \cup {task[t].name}
             /\ task' = [task EXCEPT ![t].pc = "run_resolve"]
        ELSE /\ started' = started
             /\ saved' = saved
             /\ task' = Raise(t, "ConnectionRefusedError")
    /\ UNCHANGED <<aux, auto, containers, reserved_ports, state, registrations_hash,
                   front_hash, cw>>

\* A resolve_docstatus that cleans the status before it sets the dockstate.
ResolveDocstatusCleans(st, n, seen) ==
    IF seen /\ containers[n].state # "absent"
    THEN SetDockstate(CleanStatus(Get(st, n), n), n, containers[n])
    ELSE Get(st, n)

\* StateManager.resolve_docstatus(name): the container, if the engine has
\* one, becomes the record's dockstate.
ResolveDocstatus(st, n, seen) ==
    IF seen /\ containers[n].state # "absent"
    THEN SetDockstate(Get(st, n), n, containers[n])
    ELSE Get(st, n)

\* _do_run_service: resolve_docstatus(name) ends the operation.
RunResolve(t) ==
    /\ task[t].pc = "run_resolve"
    /\ \E seen \in BOOLEAN : state' = ResolveDocstatus(state, task[t].name, seen)
    /\ task' = Done(t)
    /\ UNCHANGED <<aux, saved, auto, containers, reserved_ports, started,
                   registrations_hash, front_hash, cw>>

\* The steps of run_service after its call.
RunSteps(t) ==
    \/ CreateImage(t)
    \/ CreateImageFails(t)
    \/ RemoveGet(t)
    \/ RemoveAct(t)
    \/ AllocatePorts(t)
    \/ ListFails(t)
    \/ RunContainer(t)
    \/ RunSetAdd(t)
    \/ RunResolve(t)

\* ServiceState.native, from the image's meta.
Native(n) == n # "B"

\* StateManager.remove_service and stop_service up to their first await,
\* band_config.set_rm(STARTED_SET, name): the record is fetched.
RemoveService(t, n) ==
    /\ Free(t)
    /\ state' = Get(state, n)
    /\ task' = Call(t, "remove", n, "set_rm")
    /\ UNCHANGED <<aux, saved, auto, containers, reserved_ports, started,
                   registrations_hash, front_hash, cw>>

StopService(t, n) ==
    /\ Free(t)
    /\ state' = Get(state, n)
    /\ task' = Call(t, "stop", n, "set_rm")
    /\ UNCHANGED <<aux, saved, auto, containers, reserved_ports, started,
                   registrations_hash, front_hash, cw>>

\* set_rm returns: the override is set and the driver call begins, with
\* self.get(name) in remove_container, self.containers() in stop_container.
SetRm(t) ==
    /\ task[t].pc = "set_rm"
    /\ \E ok \in BOOLEAN :
        IF ok
        THEN /\ started' = started \ {task[t].name}
             /\ state' = SetStatusOverride(state, task[t].name,
                            IF task[t].op = "remove" THEN "REMOVING" ELSE "STOPPING")
             /\ task' = [task EXCEPT ![t].pc =
                            IF task[t].op = "remove" THEN "rm_get" ELSE "dc_list"]
        ELSE /\ started' = started
             /\ state' = state
             /\ task' = Raise(t, "ConnectionRefusedError")
    /\ UNCHANGED <<aux, saved, auto, containers, reserved_ports, registrations_hash,
                   front_hash, cw>>

\* StateManager.start_service: a native service is first added to
\* STARTED_SET; another sets the override and calls the driver at once.
StartService(t, n) ==
    /\ Free(t)
    /\ IF Native(n)
       THEN /\ state' = Get(state, n)
            /\ task' = Call(t, "start", n, "set_add")
       ELSE /\ state' = SetStatusOverride(Get(state, n), n, "STARTING")
            /\ task' = Call(t, "start", n, "dc_list")
    /\ UNCHANGED <<aux, saved, auto, containers, reserved_ports, started,
                   registrations_hash, front_hash, cw>>

\* start_service: set_add returns, the override is set, the driver is called.
StartSetAdd(t) ==
    /\ task[t].pc = "set_add"
    /\ \E ok \in BOOLEAN :
        IF ok
        THEN /\ started' = started \cup {task[t].name}
             /\ state' = SetStatusOverride(state, task[t].name, "STARTING")
             /\ task' = [task EXCEPT ![t].pc = "dc_list"]
        ELSE /\ started' = started
             /\ state' = state
             /\ task' = Raise(t, "ConnectionRefusedError")
    /\ UNCHANGED <<aux, saved, auto, containers, reserved_ports, registrations_hash,
                   front_hash, cw>>

\* StateManager.restart_service: the override is set; _do_restart_service
\* awaits dock.get(name).
RestartService(t, n) ==
    /\ Free(t)
    /\ state' = SetStatusOverride(Get(state, n), n, "RESTARTING")
    /\ task' = Call(t, "restart", n, "rs_get")
    /\ UNCHANGED <<aux, saved, auto, containers, reserved_ports, started,
                   registrations_hash, front_hash, cw>>

\* _do_restart_service: dock.get returns.  With a container the status is
\* cleaned and restart_container lists the containers; without one (or on
\* the DockerError get absorbs) the operation ends there.
RestartGet(t) ==
    /\ task[t].pc = "rs_get"
    /\ \E found \in BOOLEAN :
        IF found /\ containers[task[t].name].state # "absent"
        THEN /\ state' = CleanStatus(Get(state, task[t].name), task[t].name)
             /\ task' = [task EXCEPT ![t].pc = "dc_list"]
        ELSE /\ state' = Get(state, task[t].name)
             /\ task' = Done(t)
    /\ UNCHANGED <<aux, saved, auto, containers, reserved_ports, started,
                   registrations_hash, front_hash, cw>>

\* ------------------------------------------------------- registrations
\* ServiceState.methods: what a service registers in its status response.
MethodsOf(n) == IF n = FRONTIER_SERVICE THEN <<>> ELSE <<"m1">>

\* ServiceState.is_active: engine status running, an appstate, and no
\* override of an operation that takes the service down.
IsActive(r) ==
    r.present /\ r.dock = "running" /\ r.app /\ r.override \notin {"STOPPING", "REMOVING"}

\* ServiceState.set_appstate
SetAppstate(st, n) == [st EXCEPT ![n].app = TRUE]

\* StateManager.registrations: the methods of the active records, in the
\* order of self._state.
DictOrder == <<"A", "B", FRONTIER_SERVICE>>
RECURSIVE MethodsFrom(_, _)
MethodsFrom(st, i) ==
    IF i > Len(DictOrder) THEN <<>>
    ELSE (IF IsActive(st[DictOrder[i]]) THEN MethodsOf(DictOrder[i]) ELSE <<>>)
         \o MethodsFrom(st, i + 1)
Registrations(st) == MethodsFrom(st, 1)

\* hash(ujson.dumps(...)): an int, which never equals the initial ''.
\* Collisions of the 64-bit hash are not modelled.
EmptyStr == <<"str">>
Hash(table) == <<"int", table>>

\* check_regs_changed, line 290: whether the frontier is to be probed.
RegsChanged(st, h) == Hash(Registrations(st)) # h

\* The target of the status request a flow awaits.
ProbeTarget(t) == IF task[t].op = "restart" THEN FRONTIER_SERVICE ELSE task[t].name

\* What follows the driver call of stop, start and restart: clean_status,
\* and for restart check_regs_changed, which stores the new hash and
\* requests the frontier's status with it.
AfterDriver(t) ==
    LET n == task[t].name
        st == CleanStatus(Get(state, n), n)
    IN IF task[t].op = "restart" /\ RegsChanged(st, registrations_hash)
       THEN /\ registrations_hash' = Hash(Registrations(st))
            /\ state' = Get(st, FRONTIER_SERVICE)
            /\ \E delivered \in BOOLEAN :
                 /\ front_hash' = IF delivered THEN registrations_hash' ELSE front_hash
                 /\ task' = [task EXCEPT ![t].pc = IF delivered THEN "probe" ELSE "probe_lost"]
       ELSE /\ registrations_hash' = registrations_hash
            /\ state' = st
            /\ front_hash' = front_hash
            /\ task' = Done(t)

\* stop_container, start_container, restart_container: self.containers()
\* returns.  Without a container of that name the driver returns None.
DriverList(t) ==
    /\ task[t].pc = "dc_list"
    /\ IF containers[task[t].name].state # "absent"
       THEN /\ task' = [task EXCEPT ![t].pc = "dc_act"]
            /\ UNCHANGED <<state, registrations_hash, front_hash>>
       ELSE AfterDriver(t)
    /\ UNCHANGED <<aux, saved, auto, containers, reserved_ports, started, cw>>

\* self.containers() raises in the driver.
DriverListFails(t) ==
    /\ task[t].pc = "dc_list"
    /\ task' = Raise(t, "DockerError")
    /\ UNCHANGED <<aux, saved, auto, containers, reserved_ports, started, state,
                   registrations_hash,
                   front_hash, cw>>

\* conts[name].stop(), .start() or .restart() returns.
DriverAct(t) ==
    /\ task[t].pc = "dc_act"
    /\ containers[task[t].name].state # "absent"
    /\ containers' = [containers EXCEPT ![task[t].name].state =
                         IF task[t].op = "stop" THEN "stopped" ELSE "running"]
    /\ AfterDriver(t)
    /\ UNCHANGED <<aux, saved, auto, reserved_ports, started, cw>>

\* conts[name].stop(), .start() or .restart() raises DockerError.
DriverActFails(t) ==
    /\ task[t].pc = "dc_act"
    /\ task' = Raise(t, "DockerError")
    /\ UNCHANGED <<aux, saved, auto, containers, reserved_ports, started, state,
                   registrations_hash,
                   front_hash, cw>>

\* StateManager.request_app_state(name) up to rpc.request; the frontier's
\* payload carries the registrations and registrations_hash.
RequestAppState(t, n) ==
    /\ Free(t)
    /\ state' = Get(state, n)
    /\ \E delivered \in BOOLEAN :
         /\ front_hash' = IF delivered /\ n = FRONTIER_SERVICE
                          THEN registrations_hash ELSE front_hash
         /\ task' = Call(t, "probe", n, IF delivered THEN "probe" ELSE "probe_lost")
    /\ UNCHANGED <<aux, saved, auto, containers, reserved_ports, started,
                   registrations_hash, cw>>

\* rpc.request returns the status: svc.set_appstate(status).
ProbeReturns(t) ==
    /\ task[t].pc = "probe"
    /\ state' = SetAppstate(state, ProbeTarget(t))
    /\ task' = Done(t)
    /\ UNCHANGED <<aux, saved, auto, containers, reserved_ports, started,
                   registrations_hash,
                   front_hash, cw>>

\* rpc.request fails: the request did not reach the service.
ProbeFails(t) ==
    /\ task[t].pc = "probe_lost"
    /\ task' = Raise(t, "RPCError")
    /\ UNCHANGED <<aux, saved, auto, containers, reserved_ports, started, state,
                   registrations_hash,
                   front_hash, cw>>

\* The steps of remove, stop, start, restart and request_app_state.
LifeSteps(t) ==
    \/ SetRm(t)
    \/ StartSetAdd(t)
    \/ RestartGet(t)
    \/ DriverList(t)
    \/ DriverListFails(t)
    \/ DriverAct(t)
    \/ DriverActFails(t)
    \/ ProbeReturns(t)
    \/ ProbeFails(t)

\* ---------------------------------------------------------- reconciler
Asleep == [pc |-> "sleep", todo |-> {}, cur |-> "none", err |-> "none"]

\* A check_regs_changed that probes the frontier without storing the hash.
CwCheckKeepsHash(st) ==
    /\ registrations_hash' = registrations_hash
    /\ IF RegsChanged(st, registrations_hash)
       THEN /\ state' = Get(st, FRONTIER_SERVICE)
            /\ \E delivered \in BOOLEAN :
                 /\ front_hash' = IF delivered THEN Hash(Registrations(st)) ELSE front_hash
                 /\ cw' = [Asleep EXCEPT !.pc = IF delivered THEN "cw_probe"
                                                ELSE "cw_probe_lost"]
       ELSE /\ state' = st
            /\ front_hash' = front_hash
            /\ cw' = Asleep

\* clean_worker, after the containers are resolved: check_regs_changed.
\* A changed hash is stored and the frontier probed; else the tick ends.
CwCheck(st) ==
    IF RegsChanged(st, registrations_hash)
    THEN /\ registrations_hash' = Hash(Registrations(st))
         /\ state' = Get(st, FRONTIER_SERVICE)
         /\ \E delivered \in BOOLEAN :
              /\ front_hash' = IF delivered THEN registrations_hash' ELSE front_hash
              /\ cw' = [Asleep EXCEPT !.pc = IF delivered THEN "cw_probe" ELSE "cw_probe_lost"]
    ELSE /\ registrations_hash' = registrations_hash
         /\ state' = st
         /\ front_hash' = front_hash
         /\ cw' = Asleep

\* resolve_docstatus_all: the next listed container, or check_regs_changed.
CwNext(st, todo) ==
    IF todo = {}
    THEN CwCheck(st)
    ELSE /\ \E n \in todo :
              /\ state' = Get(st, n)
              /\ cw' = [cw EXCEPT !.pc = "cw_get", !.todo = todo \ {n}, !.cur = n]
         /\ UNCHANGED <<registrations_hash, front_hash>>

\* clean_worker: sleep(5) ends and resolve_docstatus_all lists the containers.
CwWake ==
    /\ cw.pc = "sleep"
    /\ cw' = [Asleep EXCEPT !.pc = "cw_list"]
    /\ UNCHANGED <<aux, saved, auto, containers, reserved_ports, started, state,
                   registrations_hash,
                   front_hash, task>>

\* dock.containers(struct=list) returns.
CwList ==
    /\ cw.pc = "cw_list"
    /\ CwNext(state, {n \in AllNames : containers[n].state # "absent"})
    /\ UNCHANGED <<aux, saved, auto, containers, reserved_ports, started, task>>

\* resolve_docstatus: dock.get(name) returns and the dockstate is set.
CwResolve ==
    /\ cw.pc = "cw_get"
    /\ \E seen \in BOOLEAN :
         CwNext(ResolveDocstatus(state, cw.cur, seen), cw.todo)
    /\ UNCHANGED <<aux, saved, auto, containers, reserved_ports, started, task>>

\* An exception in the tick: it is logged and the worker sleeps again.
CwException ==
    /\ cw.pc \in {"cw_list", "cw_probe_lost"}
    /\ cw' = [Asleep EXCEPT !.err = IF cw.pc = "cw_list" THEN "DockerError" ELSE "RPCError"]
    /\ UNCHANGED <<aux, saved, auto, containers, reserved_ports, started, state,
                   registrations_hash,
                   front_hash, task>>

\* request_app_state(FRONTIER_SERVICE) returns in the worker.
CwProbeReturns ==
    /\ cw.pc = "cw_probe"
    /\ state' = SetAppstate(state, FRONTIER_SERVICE)
    /\ cw' = Asleep
    /\ UNCHANGED <<aux, saved, auto, containers, reserved_ports, started,
                   registrations_hash,
                   front_hash, task>>

\* The worker's task is cancelled.  Inside the try block (sleep(5),
\* resolve_docstatus_all, check_regs_changed) the CancelledError is caught,
\* logged and the loop left: the coroutine returns.  In the sleep(1) after
\* the try block it leaves the coroutine.  cw.pc = "sleep" stands for both
\* sleeps.
CwCancel ==
    /\ cw.pc \notin {"returned", "cancelled"}
    /\ \E caught \in BOOLEAN :
         /\ (cw.pc # "sleep") => caught
         /\ cw' = [Asleep EXCEPT !.pc = IF caught THEN "returned" ELSE "cancelled"]
    /\ UNCHANGED <<aux, saved, auto, containers, reserved_ports, started, state,
                   registrations_hash, front_hash, task>>

CleanWorker ==
    \/ CwWake
    \/ CwList
    \/ CwResolve
    \/ CwException
    \/ CwProbeReturns

\* ---------------------------------------------------- event and log pump
\* The engine's multiplexed log format: an 8-byte header, byte 0 the stream,
\* bytes 4-7 the payload length (big-endian), then the payload.
HeaderLen == 8
Streams == {1, 2}
PayloadBytes == {97, 255}
Payloads == UNION {[1..k -> PayloadBytes] : k \in 0..MaxPayload}
Header(stream, n) ==
    <<stream, 0, 0, 0, (n \div 16777216) % 256, (n \div 65536) % 256,
      (n \div 256) % 256, n % 256>>
Frame(f) == Header(f.stream, Len(f.payload)) \o f.payload

\* What the engine sends: frames, and log records of one frame or of two
\* frames back to back.
Frames == [stream : Streams, payload : Payloads]
Chunks == {<<f>> : f \in Frames} \cup {<<f, g>> : f \in Frames, g \in Frames}
RECURSIVE ChunkBytes(_)
ChunkBytes(chunk) ==
    IF chunk = <<>> THEN <<>> ELSE Frame(Head(chunk)) \o ChunkBytes(Tail(chunk))

\* bytes.decode('utf-8', 'replace') on the bytes of the model: an ASCII byte
\* is its character, the byte 0xFF (valid nowhere in UTF-8) becomes U+FFFD.
Decode(bytes) == [i \in 1..Len(bytes) |-> IF bytes[i] < 128 THEN bytes[i] ELSE 65533]

\* struct.unpack('>L', mv[4:8])[0]
Unpack(mv) == mv[5] * 16777216 + mv[6] * 65536 + mv[7] * 256 + mv[8]

\* DockerManager.logs_reader, lines 89-93: the record made of one log_record.
LogRecord(mv) ==
    [source |-> mv[1], size |-> Unpack(mv),
     data |-> Decode(SubSeq(mv, HeaderLen + 1, Len(mv)))]

\* The engine sends a log record to the follower's subscriber.
Feed(chunk) ==
    /\ Len(input) < MaxChunks
    /\ input' = Append(input, chunk)
    /\ UNCHANGED <<containers, reserved_ports, started, state, registrations_hash,
                   front_hash, task, cw, saved, auto, pos, getres, published, er,
                   events, followers>>

\* logs_reader: subscriber.get() returns the next log record, which is
\* published as one message.  One message is published per record read, so
\* the records read are as many as the messages published.
LogsReader ==
    /\ Len(published) < Len(input)
    /\ published' = Append(published, LogRecord(ChunkBytes(input[Len(published) + 1])))
    /\ UNCHANGED <<containers, reserved_ports, started, state, registrations_hash,
                   front_hash, task, cw, saved, auto, pos, getres, input, er,
                   events, followers>>

\* followers[n]: the logs_reader coroutines of container n whose log stream
\* is open, and those whose stream the engine has closed and which have
\* still to read the end of the stream.
NoFollowers == [open |-> 0, closed |-> 0]
NoReader == [pc |-> "off", todo |-> {}]

\* scheduler.spawn(self.logs_reader(...)) for container n: a follower more.
\* The log stream of a container that is not running ends at once.
SpawnFollower(fs, n) ==
    IF containers[n].state = "running"
    THEN [fs EXCEPT ![n].open = @ + 1]
    ELSE [fs EXCEPT ![n].closed = @ + 1]

\* The engine starts a container (a run, a start or a restart) and sends
\* the start event to the subscription, if it is open.
EngineStart(n) ==
    /\ containers[n].state # "running"
    /\ Len(events) < MaxEvents
    /\ containers' = [containers EXCEPT ![n].state = "running"]
    /\ events' = IF er.pc = "off" THEN events
                 ELSE Append(events, [action |-> "start", name |-> n])
    /\ UNCHANGED <<reserved_ports, started, state, registrations_hash, front_hash,
                   task, cw, saved, auto, pos, getres, input, published, er,
                   followers>>

\* The engine stops a container: its log streams end, the stop event is sent.
EngineStop(n) ==
    /\ containers[n].state = "running"
    /\ Len(events) < MaxEvents
    /\ containers' = [containers EXCEPT ![n].state = "stopped"]
    /\ events' = IF er.pc = "off" THEN events
                 ELSE Append(events, [action |-> "stop", name |-> n])
    /\ followers' = [followers EXCEPT ![n] = [open |-> 0, closed |-> @.open + @.closed]]
    /\ UNCHANGED <<reserved_ports, started, state, registrations_hash, front_hash,
                   task, cw, saved, auto, pos, getres, input, published, er>>

\* logs_reader reads None, the end of the stream, and ends.
FollowerEnds(n) ==
    /\ followers[n].closed > 0
    /\ followers' = [followers EXCEPT ![n].closed = @ - 1]
    /\ UNCHANGED <<containers, reserved_ports, started, state, registrations_hash,
                   front_hash, task, cw, saved, auto, pos, getres, input, published,
                   er, events>>

\* events_reader, line 97: the subscription is opened; the running
\* containers are then asked of the engine.
ErSubscribe ==
    /\ er.pc = "off"
    /\ er' = [er EXCEPT !.pc = "list"]
    /\ UNCHANGED <<containers, reserved_ports, started, state, registrations_hash,
                   front_hash, task, cw, saved, auto, pos, getres, input, published,
                   events, followers>>

\* events_reader, line 99: self.containers(status='running') returns.
ErList ==
    /\ er.pc = "list"
    /\ LET running == {n \in AllNames : containers[n].state = "running"}
       IN er' = [pc |-> IF running = {} THEN "events" ELSE "spawn", todo |-> running]
    /\ UNCHANGED <<containers, reserved_ports, started, state, registrations_hash,
                   front_hash, task, cw, saved, auto, pos, getres, input, published,
                   events, followers>>

\* events_reader, lines 100-101: a follower is spawned for a listed container.
ErSpawn(n) ==
    /\ er.pc = "spawn"
    /\ n \in er.todo
    /\ followers[n].open + followers[n].closed < MaxFollowers
    /\ followers' = SpawnFollower(followers, n)
    /\ er' = [pc |-> IF er.todo = {n} THEN "events" ELSE "spawn", todo |-> er.todo \ {n}]
    /\ UNCHANGED <<containers, reserved_ports, started, state, registrations_hash,
                   front_hash, task, cw, saved, auto, pos, getres, input, published,
                   events>>

\* events_reader, lines 105-115: the next event is read; a follower is
\* spawned on a container's start event, nothing is done on its stop event.
ErEvent ==
    /\ er.pc = "events"
    /\ events # <<>>
    /\ LET e == Head(events)
       IN IF e.action = "start"
          THEN /\ followers[e.name].open + followers[e.name].closed < MaxFollowers
               /\ followers' = SpawnFollower(followers, e.name)
          ELSE followers' = followers
    /\ events' = Tail(events)
    /\ UNCHANGED <<containers, reserved_ports, started, state, registrations_hash,
                   front_hash, task, cw, saved, auto, pos, getres, input, published,
                   er>>

\* ------------------------------------------------------------- autostart
\* StateManager.handle_auto_start, the last step of initialize: services is
\* what should_start() returned, todo the items the loop has still to visit,
\* attempted the names run_service was called for.
NoAuto == [pc |-> "off", services |-> {}, todo |-> {}, attempted |-> {}]

\* should_start() returns STARTED_SET, or the config store refuses.
AutoShouldStart ==
    /\ auto.pc = "should_start"
    /\ \E ok \in BOOLEAN :
         auto' = IF ok
                 THEN [auto EXCEPT !.pc = "loop", !.services = started, !.todo = started]
                 ELSE [auto EXCEPT !.pc = "raised"]
    /\ UNCHANGED <<aux, saved, containers, reserved_ports, started, state,
                   registrations_hash, front_hash, task, cw>>

\* The loop visits an item: the record is fetched, and run_service is
\* called and awaited for a native service that is not active.
AutoNext(n) ==
    /\ auto.pc = "loop"
    /\ task[1].pc \in {"idle", "done"}
    /\ n \in auto.todo
    /\ IF ~IsActive(Get(state, n)[n]) /\ Native(n)
       THEN /\ RunService(1, n)
            /\ auto' = [auto EXCEPT !.todo = @ \ {n}, !.attempted = @ \cup {n}]
       ELSE /\ state' = Get(state, n)
            /\ auto' = [auto EXCEPT !.todo = @ \ {n}]
            /\ UNCHANGED <<aux, saved, containers, reserved_ports, started,
                           registrations_hash, front_hash, task, cw>>

\* The loop ends when every item was visited; an exception of the awaited
\* run_service leaves handle_auto_start (and initialize) at once.
AutoEnd ==
    /\ auto.pc = "loop"
    /\ \/ /\ task[1].pc \in {"idle", "done"}
          /\ auto.todo = {}
          /\ auto' = [auto EXCEPT !.pc = "done"]
       \/ /\ task[1].pc = "raised"
          /\ auto' = [auto EXCEPT !.pc = "raised"]
    /\ UNCHANGED <<aux, saved, containers, reserved_ports, started, state,
                   registrations_hash, front_hash, task, cw>>

\* initialize, lines 54-57: a status request is spawned for a running native
\* container; it runs beside the autostart, in flow 2.
BootProbe(n) ==
    /\ auto.pc # "off"
    /\ containers[n].state = "running" /\ Native(n)
    /\ RequestAppState(2, n)

\* ------------------------------------------------------- dashboard placer
\* pos[n]: NoService while _state has no record of n, Unplaced for a record
\* whose pos has no col and row, else the cell <<col, row>>.
NoService == <<"none">>
Unplaced == <<>>
IsCell(p) == Len(p) = 2

\* The cells of range(c0, c1) x range(r0, r1), row by row.
Block(c0, c1, r0, r1) ==
    IF c1 <= c0 \/ r1 <= r0 THEN <<>>
    ELSE [i \in 1..((c1 - c0) * (r1 - r0)) |->
            <<c0 + ((i - 1) % (c1 - c0)), r0 + ((i - 1) \div (c1 - c0))>>]

\* StateManager._space_walk: rows srow.. with columns scol.., then rows
\* 0..srow-1 with columns 0..scol-1.
SpaceWalk(scol, srow) == Block(scol, Cols, srow, Rows) \o Block(0, scol, 0, srow)

\* StateManager._occupied: the cells of the other records.
OccupiedNone(p, exclude) == {}
Occupied(p, exclude) == {p[m] : m \in {k \in GridNames \ {exclude} : IsCell(p[k])}}

\* StateManager._allocate: the first cell of the walk that is not occupied;
\* None (Unplaced) when the walk has no such cell.
Allocate(p, name, col, row) ==
    LET occupied == Occupied(p, name)
        walk == SpaceWalk(col, row)
        free == {i \in 1..Len(walk) : walk[i] \notin occupied}
    IN IF free = {} THEN Unplaced
       ELSE walk[CHOOSE i \in free : \A j \in free : i <= j]

\* The positions the config store or the image meta can hold: the cells and
\* the first column and row past the grid.  The positions a caller can
\* request: none, or one of these with a row other than 0.
Cells == {<<c, r>> : c \in 0..(Cols - 1), r \in 0..(Rows - 1)}
PosInputs == {<<c, r>> : c \in 0..Cols, r \in 0..Rows}
PosRequests == {Unplaced} \cup {p \in PosInputs : p[2] # 0}

\* StateManager.get, line 131: params.pos.col and params.pos.row are truthy.
Requested(ppos) == IsCell(ppos) /\ ppos[1] # 0 /\ ppos[2] # 0

\* StateManager.get, lines 131-159: the wanted position.  A new record
\* falls back on the stored position (the config's, else the meta's, else
\* the default one); a record in _state is placed on request only.
WantedPos(new, ppos, spos) ==
    IF Requested(ppos) THEN ppos
    ELSE IF new THEN spos
    ELSE Unplaced

\* How a call of get ended: res is "returned" or the error raised; full, the
\* other records occupied every cell of the grid; moved, the wanted cell was
\* occupied and another one was allotted.
NoGet == [res |-> "none", full |-> FALSE, moved |-> FALSE]

\* StateManager.get(name, params=...): the record is created on first use and
\* placed at the cell _allocate returns; with no cell, svc.set_pos(**None)
\* raises TypeError, the new record staying in _state.
GetPos(n, ppos, spos) ==
    LET new == pos[n] = NoService
        before == IF new THEN Unplaced ELSE pos[n]
        wanted == WantedPos(new, ppos, spos)
    IN \E others \in {Occupied(pos, n)} :
       \E cell \in {IF IsCell(wanted) THEN Allocate(pos, n, wanted[1], wanted[2])
                     ELSE Unplaced} :
          /\ pos' = [pos EXCEPT ![n] = IF IsCell(cell) THEN cell ELSE before]
          /\ getres' = [res |-> IF IsCell(wanted) /\ ~IsCell(cell)
                                THEN "TypeError" ELSE "returned",
                        full |-> Cells \subseteq others,
                        moved |-> IsCell(cell) /\ wanted \in others]
          /\ UNCHANGED <<containers, reserved_ports, started, state,
                         registrations_hash, front_hash, task, cw, saved, auto,
                         input, published, er, events, followers>>

NoHash == <<"none">>

Init ==
    /\ containers = [n \in AllNames |-> Absent]
    /\ reserved_ports = {}
    /\ started = {}
    /\ state = [n \in AllNames |-> NoRecord]
    /\ registrations_hash = EmptyStr
    /\ front_hash = NoHash
    /\ task = [t \in Flows |-> Idle]
    /\ cw = Asleep
    /\ saved = {}
    /\ auto = NoAuto
    /\ pos = [n \in GridNames |-> NoService]
    /\ getres = NoGet
    /\ input = <<>>
    /\ published = <<>>
    /\ er = NoReader
    /\ events = <<>>
    /\ followers = [n \in AllNames |-> NoFollowers]

\* Concurrent run_service calls: the port pool under contention.
NextPorts ==
    \E t \in Flows :
        \/ \E n \in Names : RunService(t, n) /\ UNCHANGED auto
        \/ RunSteps(t)

SpecPorts == Init /\ [][NextPorts]_vars

\* The lifecycle operations of one name, called from flow t.
Calls(t, n) ==
    \/ RunService(t, n) /\ UNCHANGED auto
    \/ RemoveService(t, n)
    \/ StopService(t, n)
    \/ StartService(t, n)
    \/ RestartService(t, n)

\* One flow: every operation is awaited before the next is called.
NextSeq ==
    \/ \E n \in Names : Calls(1, n)
    \/ RunSteps(1)
    \/ LifeSteps(1)

SpecSeq == Init /\ [][NextSeq]_vars

\* One flow and one service: every operation is called for the name of the
\* first one.
OneName(n) == task[1].name \in {"none", n}
OneCalls(n) ==
    \/ OneName(n) /\ RunService(1, n) /\ UNCHANGED auto
    \/ OneName(n) /\ RemoveService(1, n)
    \/ OneName(n) /\ StopService(1, n)
    \/ OneName(n) /\ StartService(1, n)
    \/ OneName(n) /\ RestartService(1, n)

NextOne ==
    \/ \E n \in Names : OneCalls(n)
    \/ RunSteps(1)
    \/ LifeSteps(1)

SpecOne == Init /\ [][NextOne]_vars

\* Two flows: operations overlap, as detached or concurrent calls do.
NextConc ==
    \E t \in Flows :
        \/ Calls(t, "A")
        \/ RunSteps(t)
        \/ LifeSteps(t)

SpecConc == Init /\ [][NextConc]_vars

\* The reconciler beside one flow of operations and status requests.
NextRegs ==
    \/ Calls(1, "A")
    \/ \E n \in {"A", FRONTIER_SERVICE} : RequestAppState(1, n)
    \/ RunSteps(1)
    \/ LifeSteps(1)
    \/ CleanWorker

SpecRegs == Init /\ [][NextRegs]_vars

\* get(name, params) called again and again: the dashboard placer.
NextGrid ==
    \E n \in GridNames, ppos \in PosRequests :
        \E spos \in IF pos[n] = NoService /\ ~Requested(ppos)
                     THEN PosInputs ELSE {Unplaced} :
            GetPos(n, ppos, spos)

SpecGrid == Init /\ [][NextGrid]_vars

\* The reconciler beside a service that is run, probed and removed: the
\* registration table changes and changes back.
NextHash ==
    \/ RunService(1, "A") /\ UNCHANGED auto
    \/ RemoveService(1, "A")
    \/ RequestAppState(1, "A")
    \/ RunSteps(1)
    \/ SetRm(1)
    \/ ProbeReturns(1)
    \/ ProbeFails(1)
    \/ CleanWorker

SpecHash == Init /\ [][NextHash]_vars

\* The boot: the config store holds STARTED_SET, the engine may run A, whose
\* record the boot's resolve_docstatus_all has filled, and handle_auto_start
\* is about to ask should_start().
BootPorts == {p \in Ports : p < StartPort + DeclaredPorts("A")}
InitBoot ==
    /\ started \in SUBSET AllNames
    /\ \E up \in BOOLEAN :
         /\ containers = [n \in AllNames |->
                             IF up /\ n = "A"
                             THEN [state |-> "running", ports |-> BootPorts]
                             ELSE Absent]
         /\ state = [n \in AllNames |->
                        IF up /\ n = "A"
                        THEN [NewRecord EXCEPT !.dock = "running", !.dports = BootPorts]
                        ELSE NoRecord]
    /\ reserved_ports = {}
    /\ registrations_hash = EmptyStr
    /\ front_hash = NoHash
    /\ task = [t \in Flows |-> Idle]
    /\ cw = Asleep
    /\ saved = {}
    /\ auto = [NoAuto EXCEPT !.pc = "should_start"]
    /\ pos = [n \in GridNames |-> NoService]
    /\ getres = NoGet
    /\ input = <<>>
    /\ published = <<>>
    /\ er = NoReader
    /\ events = <<>>
    /\ followers = [n \in AllNames |-> NoFollowers]

NextBoot ==
    \/ AutoShouldStart
    \/ \E n \in AllNames : AutoNext(n)
    \/ AutoEnd
    \/ \E n \in AllNames : BootProbe(n)
    \/ ProbeReturns(2)
    \/ ProbeFails(2)
    \/ RunSteps(1)

SpecBoot == InitBoot /\ [][NextBoot]_vars

\* The reconciler, cancelled at any time, beside the operations.
NextWorker ==
    \/ Calls(1, "A")
    \/ RunSteps(1)
    \/ LifeSteps(1)
    \/ CleanWorker
    \/ CwCancel

SpecWorker == Init /\ [][NextWorker]_vars

\* The log records of one follower, from the engine to the logs channel.
NextFrames ==
    \/ \E chunk \in Chunks : Feed(chunk)
    \/ LogsReader

SpecFrames == Init /\ [][NextFrames]_vars

\* The events reader beside an engine that starts and stops containers.
NextPump ==
    \/ ErSubscribe
    \/ ErList
    \/ \E n \in Names : ErSpawn(n)
    \/ ErEvent
    \/ \E n \in Names : EngineStart(n)
    \/ \E n \in Names : EngineStop(n)
    \/ \E n \in Names : FollowerEnds(n)

SpecPump == Init /\ [][NextPump]_vars

\* ================================================================ claims
\* A flow is mid-execution from the setting of its override to the return
\* of its driver call.
DriverPcs == {"rc_build", "rm_get", "rm_act", "rc_ports", "rc_run",
              "rs_get", "dc_list", "dc_act"}
MidExecution(t) == task[t].pc \in DriverPcs
LifecycleOps == {"run", "remove", "stop", "start", "restart"}

\* C1: once no run attempt is between hold_ports and the exit of
\* run_container, reserved_ports holds none of the ports the attempts held:
\* the reservation set is back to its content before the calls.
C1_ReservationReleased ==
    (\A t \in Flows : task[t].pc # "rc_run") => reserved_ports = {}

\* C2: no two lifecycle operations on the same name are mid-execution at
\* the same time.
C2_Serialized ==
    \A t1, t2 \in Flows :
        (t1 # t2 /\ MidExecution(t1) /\ MidExecution(t2))
            => task[t1].name # task[t2].name

\* C3: no host port is in the dockstate of two records, nor bound by two
\* containers, whatever the interleaving of the run attempts; and the ports
\* a run attempt holds are held by no other attempt and bound by no container.
C3_PortsDisjoint ==
    /\ \A n, m \in AllNames :
          n # m => /\ state[n].dports \cap state[m].dports = {}
                   /\ containers[n].ports \cap containers[m].ports = {}
    /\ \A t \in Flows :
          task[t].pc = "rc_run"
              => /\ \A n \in AllNames : task[t].ports \cap containers[n].ports = {}
                 /\ \A u \in Flows \ {t} :
                       task[u].pc = "rc_run" => task[t].ports \cap task[u].ports = {}

\* C3's case: the records of two services each show a running container
\* with the ports allotted to it.
C3_TwoRecordsWithPorts ==
    /\ state["A"].dock = "running" /\ state["A"].dports # {}
    /\ state["B"].dock = "running" /\ state["B"].dports # {}
    /\ containers["A"].state = "running" /\ containers["B"].state = "running"

\* C4: when the driver call of a lifecycle operation has failed, the
\* record's override is none once the operation has exited.
C4_FailureClearsOverride ==
    \A t \in Flows :
        (task[t].pc = "raised" /\ task[t].err = "DockerError")
            => state[task[t].name].override = "none"

\* C5: when a lifecycle operation has run to completion, the record's
\* override is none, whether or not a container of that name exists.
C5_CompletionClearsOverride ==
    \A t \in Flows :
        (task[t].pc = "done" /\ task[t].op \in LifecycleOps)
            => state[task[t].name].override = "none"

\* C6: in the step that completes remove_service(n), every other operation
\* having been called before it (and awaited or detached), the record's
\* dockstate is cleared and n is not in STARTED_SET.
C6_RemoveClears ==
    [][\A t \in Flows :
          (task[t].pc # "done" /\ task'[t].pc = "done"
           /\ task'[t].op = "remove" /\ task'[t].latest)
              => /\ state'[task'[t].name].dock = "none"
                 /\ task'[t].name \notin started']_vars

\* C7: a reconcile tick that ends without an error and without a probe of
\* its own finds the frontier holding the hash of the current, non-empty
\* registration table: the change that made the table was delivered.
C7_ChangeDelivered ==
    [][(cw.pc \in {"cw_list", "cw_get"} /\ cw'.pc = "sleep" /\ cw'.err = "none"
        /\ Registrations(state') # <<>>)
          => front_hash' = Hash(Registrations(state'))]_vars

\* C8: start_service(n) then stop_service(n), both awaited in one flow, on
\* an existing container: the record's effective status is stopped and n is
\* not in STARTED_SET.
C8_StartThenStop ==
    \A t \in Flows :
        (task[t].pc = "done" /\ task[t].op = "stop" /\ task[t].seq
         /\ containers[task[t].name].state # "absent")
            => /\ EffectiveStatus(state[task[t].name]) = "stopped"
               /\ task[t].name \notin started

\* A run attempt has the containers listed and finds fewer ports available
\* than the service declares.
ExhaustedStep(t) ==
    /\ task[t].pc = "rc_ports"
    /\ task'[t].pc # "rc_ports"
    /\ ~(task'[t].pc = "raised" /\ task'[t].err = "DockerError")
    /\ Cardinality(AvailablePorts(containers, reserved_ports))
          < DeclaredPorts(task[t].name)

C10_OneRestart ==
    \A t1, t2 \in Flows :
        (t1 # t2 /\ task[t1].op = "restart" /\ task[t2].op = "restart"
         /\ task[t1].name = task[t2].name
         /\ containers[task[t1].name].state = "running")
            => ~(task[t1].pc = "dc_act" /\ task[t2].pc = "dc_act")

\* C11: whatever the get calls, no two records hold the same cell.
C11_DistinctPositions ==
    \A n, m \in GridNames :
        (n # m /\ IsCell(pos[n]) /\ IsCell(pos[m])) => pos[n] # pos[m]

\* C11's case: a get wanted a cell that another record holds and the record
\* was placed on another cell.
C11_MovedAside == getres.res = "returned" /\ getres.moved

\* The cell of a record, none for a name without a record.
PosOf(p) == IF IsCell(p) THEN p ELSE Unplaced

\* C12: a get that finds every cell occupied by the other records returns
\* the record and leaves every position as it was.
C12_FullGridReturns ==
    [][getres'.full
          => /\ getres'.res = "returned"
             /\ \A n \in GridNames : PosOf(pos'[n]) = PosOf(pos[n])]_vars

\* C13: remove, stop and start of a service that has no container send no
\* command to the engine; such a remove fails only if the config store
\* refuses set_rm, and once complete leaves the record without override.
C13_AbsentIsNoOp ==
    \A t \in Flows :
        (task[t].op \in {"remove", "stop", "start"}
         /\ containers[task[t].name].state = "absent")
            => /\ task[t].pc \notin {"rm_act", "dc_act"}
               /\ task[t].op = "remove"
                     => /\ task[t].pc = "raised"
                              => task[t].err = "ConnectionRefusedError"
                        /\ task[t].pc = "done"
                              => state[task[t].name].override = "none"

\* C13's case: remove_service has completed for a service no container of
\* which ever existed (a run reserves ports before it creates one).
C13_RemovedAbsent ==
    /\ task[1].op = "remove" /\ task[1].pc = "done"
    /\ reserved_ports = {}
    /\ containers[task[1].name].state = "absent"

\* The records of the frames of a sequence of log records, in input order.
FrameRecord(f) ==
    [source |-> f.stream, size |-> Len(f.payload), data |-> Decode(f.payload)]
RECURSIVE FrameRecords(_)
FrameRecords(chunks) ==
    IF chunks = <<>> THEN <<>>
    ELSE [i \in 1..Len(Head(chunks)) |-> FrameRecord(Head(chunks)[i])]
         \o FrameRecords(Tail(chunks))

\* C14: once the follower has read its input, the records published are
\* those of the frames of the input, one per frame and in input order.
C14_FramesToRecords ==
    Len(published) = Len(input) => published = FrameRecords(input)

\* C15: a step of the reconciler's pass over the containers changes the
\* override of no record.
C15_ReconcilerKeepsOverride ==
    [][(cw.pc \in {"cw_list", "cw_get"} /\ cw' # cw)
          => \A n \in AllNames : state'[n].override = state[n].override]_vars

\* C15's case: during a run of A, whose run_service cleaned the dockstate,
\* the reconciler has set the dockstate and the override still shows.
C15_DockstateUnderOverride ==
    /\ task[1].op = "run" /\ task[1].name = "A" /\ MidExecution(1)
    /\ state["A"].override = "STARTING"
    /\ state["A"].dock = "running"

\* C16: a cancelled worker ends by the cancellation, never by a return.
C16_CancellationLeaves == cw.pc # "returned"

C18_AllAttempted ==
    auto.pc \in {"done", "raised"}
        => \A n \in auto.services :
              (Native(n) /\ ~IsActive(state[n])) => n \in auto.attempted

\* The override a lifecycle operation sets.
OverrideOf(op) ==
    CASE op \in {"run", "start"} -> "STARTING"
      [] op = "stop" -> "STOPPING"
      [] op = "remove" -> "REMOVING"
      [] op = "restart" -> "RESTARTING"
      [] OTHER -> "none"

\* C19: while an operation is mid-execution, every operation being awaited
\* before the next is called, the record shows the operation's override.
C19_OverrideWhileRunning ==
    \A t \in Flows :
        MidExecution(t) => state[task[t].name].override = OverrideOf(task[t].op)

\* C20: a running container has at most one live follower.
C20_OneFollower ==
    \A n \in AllNames :
        containers[n].state = "running"
            => followers[n].open + followers[n].closed <= 1

\* C21: a tick probes the frontier only when the table's hash differs from
\* the stored one, and stores the new hash in the step that sends the probe;
\* a failed probe leaves the stored hash as it is.  Hence no later tick
\* probes for that change until the table changes again.
C21_StoredBeforeProbe ==
    [][/\ (cw.pc \notin {"cw_probe", "cw_probe_lost"}
           /\ cw'.pc \in {"cw_probe", "cw_probe_lost"})
             => /\ registrations_hash' = Hash(Registrations(state'))
                /\ registrations_hash' # registrations_hash
       /\ (cw.pc = "cw_probe_lost" /\ cw'.pc # "cw_probe_lost")
             => registrations_hash' = registrations_hash
       /\ (cw.pc \in {"cw_list", "cw_get"} /\ cw'.pc = "sleep" /\ cw'.err = "none")
             => registrations_hash' = Hash(Registrations(state'))]_vars

\* C21's case: the probe for a non-empty table has failed, the hash of that
\* table is stored and the frontier has not received it.
C21_ProbeFailed ==
    /\ cw.pc = "sleep" /\ cw.err = "RPCError"
    /\ Registrations(state) # <<>>
    /\ registrations_hash = Hash(Registrations(state))
    /\ front_hash # registrations_hash

\* C22: for every record and every requested cell of the grid, the placer
\* returns none only when the other records occupy every cell, and else
\* returns a cell of the grid that none of them occupies.
C22_FreeCellFound ==
    \A n \in GridNames, w \in Cells :
        IF Cells \subseteq Occupied(pos, n)
        THEN Allocate(pos, n, w[1], w[2]) = Unplaced
        ELSE Allocate(pos, n, w[1], w[2]) \in Cells \ Occupied(pos, n)
====
